---- MODULE Spec2Model ----
(***************************************************************************)
(* A model of LightLora for MicroPython: the SX127x register driver        *)
(* (LightLora/sx127x.py), the SPI register transfer it rests on            *)
(* (LightLora/spicontrol.py) and the packet protocol on top of it          *)
(* (LightLora/lorautil.py).                                                *)
(*                                                                         *)
(* The chip and the driver object are one record `sx`:                     *)
(*   reg     the chip's registers, a byte each                             *)
(*   fifo    the chip's 256-byte FIFO: address a is element a + 1          *)
(*   air     the frame the chip was told to transmit at the last switch    *)
(*           to TX mode (the first REG_PAYLOAD_LENGTH bytes from the TX    *)
(*           base address)                                                 *)
(*   handler the handler attached to the DIO0 pin: "none", "rx" or "tx"    *)
(*   ihm     the driver's _implicitHeaderMode: "None", "True" or "False"   *)
(*   onRx, onTx  whether a receive / transmit callback is registered       *)
(* The driver's methods are operators from such a record to the record     *)
(* after the call.                                                         *)
(*                                                                         *)
(* Specifications:                                                         *)
(*   Spec        send_packet, println and the two interrupt handlers,      *)
(*               statement by statement, interleaved with each other and   *)
(*               with the chip's events                                    *)
(*   FairSend    send_packet and the transmit handler alone, with the      *)
(*               calling thread, the handlers and the chip making progress *)
(*   SpecSend    send_packet call by call, the counter past its wrap       *)
(*   SpecRecv    receive interrupts handled to the end, and read_packet    *)
(*   SpecDriver  beginPacket, write and endPacket called on the driver     *)
(*   SpecConfig  init() and the setters of the modem configuration, on a   *)
(*               chip of any revision                                      *)
(*   SpecHandlers  println and the two handlers, handler statements        *)
(*               interleaved in every way with the application's           *)
(*   FairPrint   println and the two handlers, the handlers running in     *)
(*               interrupt context, with progress                          *)
(***************************************************************************)
EXTENDS Integers, Sequences, FiniteSets, TLC

\* ------------------------------------------------------------ state
VARIABLES
    sx,             \* the chip and the SX127x object driving it
    linecounter,    \* LoraUtil.linecounter
    packet,         \* LoraUtil.packet: None or the pending packet
    done_transmit,  \* LoraUtil.done_transmit
    lock,           \* SX127x._lock: "free", or held by "app" or "isr"
    app,            \* the application thread: where it is, and its locals
    isr,            \* the interrupt context: where it is, and its locals
    pending,        \* handlers scheduled by DIO0 edges, not yet started
    obs             \* what has been observed so far (history, no program state)

vars == << sx, linecounter, packet, done_transmit, lock, app, isr, pending, obs >>

\* ------------------------------------------------------------ registers
REG_FIFO == 0
REG_OP_MODE == 1
REG_FRF_MSB == 6
REG_FRF_MID == 7
REG_FRF_LSB == 8
REG_PA_CONFIG == 9
REG_LNA == 12
REG_FIFO_ADDR_PTR == 13
REG_FIFO_TX_BASE_ADDR == 14
FifoTxBaseAddr == 0
REG_FIFO_RX_BASE_ADDR == 15
FifoRxBaseAddr == 0
REG_FIFO_RX_CURRENT_ADDR == 16
REG_IRQ_FLAGS == 18
REG_RX_NB_BYTES == 19
REG_PKT_RSSI_VALUE == 26
REG_PKT_SNR_VALUE == 27
REG_MODEM_CONFIG_1 == 29
REG_MODEM_CONFIG_2 == 30
REG_PREAMBLE_MSB == 32
REG_PREAMBLE_LSB == 33
REG_PAYLOAD_LENGTH == 34
REG_FIFO_RX_BYTE_ADDR == 37
REG_MODEM_CONFIG_3 == 38
REG_DETECTION_OPTIMIZE == 49
REG_DETECTION_THRESHOLD == 55
REG_SYNC_WORD == 57
REG_DIO_MAPPING_1 == 64
REG_VERSION == 66

MODE_LONG_RANGE_MODE == 128
MODE_SLEEP == 0
MODE_STDBY == 1
MODE_TX == 3
MODE_RX_CONTINUOUS == 5
MODE_RX_SINGLE == 5

PA_BOOST == 128

IRQ_TX_DONE_MASK == 8
IRQ_PAYLOAD_CRC_ERROR_MASK == 32
IRQ_RX_DONE_MASK == 64
IRQ_RX_TIME_OUT_MASK == 128

MAX_PKT_LENGTH == 255
REQUIRED_VERSION == 18

\* DIO0 mapping values written by receive() and endPacket()
DIO0_RX_DONE == 0
DIO0_TX_DONE == 64

\* send_packet's polling ceiling (while ... slt < 50)
SLT_LIMIT == 50

Byte == 0..255

Regs ==
    { REG_OP_MODE, REG_FRF_MSB, REG_FRF_MID, REG_FRF_LSB, REG_PA_CONFIG,
      REG_LNA, REG_FIFO_ADDR_PTR, REG_FIFO_TX_BASE_ADDR,
      REG_FIFO_RX_BASE_ADDR, REG_FIFO_RX_CURRENT_ADDR, REG_IRQ_FLAGS,
      REG_RX_NB_BYTES, REG_PKT_RSSI_VALUE, REG_PKT_SNR_VALUE,
      REG_MODEM_CONFIG_1, REG_MODEM_CONFIG_2, REG_PREAMBLE_MSB,
      REG_PREAMBLE_LSB, REG_PAYLOAD_LENGTH, REG_FIFO_RX_BYTE_ADDR,
      REG_MODEM_CONFIG_3, REG_DETECTION_OPTIMIZE, REG_DETECTION_THRESHOLD,
      REG_SYNC_WORD, REG_DIO_MAPPING_1, REG_VERSION }

\* ------------------------------------------------------------ bit helpers
RECURSIVE BitAndN(_, _, _)
BitAndN(a, b, n) ==
    IF n = 0 \/ a = 0 \/ b = 0 THEN 0
    ELSE (IF a % 2 = 1 /\ b % 2 = 1 THEN 1 ELSE 0)
         + 2 * BitAndN(a \div 2, b \div 2, n - 1)

\* a & b on non-negative integers below 2^24
BitAnd(a, b) == BitAndN(a, b, 24)

\* a | b
BitOr(a, b) == a + b - BitAnd(a, b)

Min(a, b) == IF a < b THEN a ELSE b
Max(a, b) == IF a > b THEN a ELSE b

\* ------------------------------------------------------------ SPI transfer
\* bytearray([value]) keeps the low eight bits of value: the byte that goes
\* out on the bus.
ToByte(value) == value % 256

\* the n <= 256 bytes of FIFO f from address `at` on, wrapping at 256
FifoSlice(f, at, n) ==
    IF at + n <= 256 THEN SubSeq(f, at + 1, at + n)
    ELSE SubSeq(f, at + 1, 256) \o SubSeq(f, 1, at + n - 256)

\* FIFO f after the bytes of raw (at most 256) are stored from address `at`
\* on, wrapping at 256
storeBytes(f, at, raw) ==
    LET n == Len(raw)
        k == 256 - at
    IN  IF at + n <= 256
        THEN SubSeq(f, 1, at) \o raw \o SubSeq(f, at + n + 1, 256)
        ELSE SubSeq(raw, k + 1, n) \o SubSeq(f, n - k + 1, at) \o SubSeq(raw, 1, k)

\* The chip's reaction to a write of OP_MODE: entering TX puts the first
\* PAYLOAD_LENGTH bytes from the TX base address on air; entering
\* RxContinuous from another mode restarts reception at the RX base address.
ModeEffect(s, old, new) ==
    IF new = MODE_LONG_RANGE_MODE + MODE_TX
    THEN [s EXCEPT !.air = FifoSlice(s.fifo, s.reg[REG_FIFO_TX_BASE_ADDR],
                                     s.reg[REG_PAYLOAD_LENGTH])]
    ELSE IF new = MODE_LONG_RANGE_MODE + MODE_RX_CONTINUOUS /\ old # new
    THEN [s EXCEPT !.reg[REG_FIFO_RX_BYTE_ADDR] = s.reg[REG_FIFO_RX_BASE_ADDR]]
    ELSE s

\* writeRegister(address, value): one transfer with bit 7 of the address set.
\* A write of REG_FIFO stores at the address pointer and advances it; a write
\* of REG_IRQ_FLAGS clears the bits written as 1; REG_VERSION is read-only.
WriteRegister(s, address, value) ==
    LET v == ToByte(value) IN
    IF address = REG_FIFO
    THEN [s EXCEPT !.fifo[s.reg[REG_FIFO_ADDR_PTR] + 1] = v,
                   !.reg[REG_FIFO_ADDR_PTR] = (@ + 1) % 256]
    ELSE IF address = REG_IRQ_FLAGS
    THEN [s EXCEPT !.reg[REG_IRQ_FLAGS] = @ - BitAnd(@, v)]
    ELSE IF address = REG_VERSION
    THEN s
    ELSE IF address = REG_OP_MODE
    THEN ModeEffect([s EXCEPT !.reg[REG_OP_MODE] = v], s.reg[REG_OP_MODE], v)
    ELSE [s EXCEPT !.reg[address] = v]

\* readRegister(address) of a register other than REG_FIFO
ReadRegister(s, address) == s.reg[address]

\* n transfers in a row that read REG_FIFO: the bytes from the address
\* pointer on, and the pointer advanced by n
FifoReads(s, n) == FifoSlice(s.fifo, s.reg[REG_FIFO_ADDR_PTR], n)
FifoAdvance(s, n) == [s EXCEPT !.reg[REG_FIFO_ADDR_PTR] = (@ + n) % 256]

\* transfers in a row that write the bytes of `bytes` to REG_FIFO: each is
\* WriteRegister(s, REG_FIFO, byte)
FifoWrites(s, bytes) ==
    [s EXCEPT !.fifo = storeBytes(@, s.reg[REG_FIFO_ADDR_PTR], bytes),
              !.reg[REG_FIFO_ADDR_PTR] = (@ + Len(bytes)) % 256]

\* ------------------------------------------------------------ SX127x
standby(s) == WriteRegister(s, REG_OP_MODE, MODE_LONG_RANGE_MODE + MODE_STDBY)

sleep(s) == WriteRegister(s, REG_OP_MODE, MODE_LONG_RANGE_MODE + MODE_SLEEP)

\* setTxPower(level) with the default output pin, PA_BOOST
setTxPower(s, level) ==
    WriteRegister(s, REG_PA_CONFIG, PA_BOOST + (Min(Max(level, 2), 17) - 2))

\* frfs = int(frequency / 61.03515625), and 61.03515625 = 15625 / 256
Frfs(frequency) ==
    (frequency \div 15625) * 256 + ((frequency % 15625) * 256) \div 15625

setFrequency(s, frequency) ==
    LET frfs == Frfs(frequency)
        s0 == [s EXCEPT !.frequency = frequency]
        s1 == WriteRegister(s0, REG_FRF_MSB, frfs \div 65536)
        s2 == WriteRegister(s1, REG_FRF_MID, frfs \div 256)
    IN  WriteRegister(s2, REG_FRF_LSB, frfs)

\* a clamp without the upper limit
ClampSf_NoUpper(sf) == Max(sf, 6)

ClampSf(sf) == Min(Max(sf, 6), 12)

setSpreadingFactor(s, sf0) ==
    LET sf == ClampSf(sf0)
        s1 == WriteRegister(s, REG_DETECTION_OPTIMIZE, IF sf = 6 THEN 197 ELSE 195)
        s2 == WriteRegister(s1, REG_DETECTION_THRESHOLD, IF sf = 6 THEN 12 ELSE 10)
    IN  WriteRegister(s2, REG_MODEM_CONFIG_2,
            BitOr(BitAnd(ReadRegister(s2, REG_MODEM_CONFIG_2), 15),
                  BitAnd(sf * 16, 240)))

bins == << 7800, 10400, 15600, 20800, 31250, 41700, 62500, 125000, 250000 >>

\* the index the loop of setSignalBandwidth leaves in bw
BwIndex(sbw) ==
    IF \E i \in 1..Len(bins) : sbw <= bins[i]
    THEN (CHOOSE i \in 1..Len(bins) :
            sbw <= bins[i] /\ \A j \in 1..(i - 1) : ~(sbw <= bins[j])) - 1
    ELSE 9

setSignalBandwidth(s, sbw) ==
    WriteRegister(s, REG_MODEM_CONFIG_1,
        BitOr(BitAnd(ReadRegister(s, REG_MODEM_CONFIG_1), 15), BwIndex(sbw) * 16))

\* setCodingRate with a mask that also clears the header mode bit
setCodingRate_ClearsHeaderBit(s, denominator) ==
    LET cr == Min(Max(denominator, 5), 8) - 4
    IN  WriteRegister(s, REG_MODEM_CONFIG_1,
            BitOr(BitAnd(ReadRegister(s, REG_MODEM_CONFIG_1), 240), cr * 2))

setCodingRate(s, denominator) ==
    LET cr == Min(Max(denominator, 5), 8) - 4
    IN  WriteRegister(s, REG_MODEM_CONFIG_1,
            BitOr(BitAnd(ReadRegister(s, REG_MODEM_CONFIG_1), 241), cr * 2))

setPreambleLength(s, length) ==
    LET s1 == WriteRegister(s, REG_PREAMBLE_MSB, BitAnd(length \div 256, 255))
    IN  WriteRegister(s1, REG_PREAMBLE_LSB, BitAnd(length, 255))

enableCRC(s, enable_CRC) ==
    LET modem_config_2 == ReadRegister(s, REG_MODEM_CONFIG_2)
    IN  WriteRegister(s, REG_MODEM_CONFIG_2,
            IF enable_CRC THEN BitOr(modem_config_2, 4)
                          ELSE BitAnd(modem_config_2, 251))

setSyncWord(s, sw) == WriteRegister(s, REG_SYNC_WORD, sw)

\* a Python bool as the driver keeps it in _implicitHeaderMode
PyBool(b) == IF b THEN "True" ELSE "False"

\* implicitHeaderMode(m): nothing when m equals the tracked mode
implicitHeaderMode(s, m) ==
    IF s.ihm # PyBool(m)
    THEN LET modem_config_1 == ReadRegister(s, REG_MODEM_CONFIG_1)
         IN  WriteRegister([s EXCEPT !.ihm = PyBool(m)], REG_MODEM_CONFIG_1,
                 IF m THEN BitOr(modem_config_1, 1)
                      ELSE BitAnd(modem_config_1, 254))
    ELSE s

\* _prepIrqHandler(handlefn): attach handlefn to DIO0, "none" detaches
prepIrqHandler(s, handlefn) == [s EXCEPT !.handler = handlefn]

onReceive(s, callback) == prepIrqHandler([s EXCEPT !.onRx = callback], "none")

onTransmit(s, callback) == [s EXCEPT !.onTx = callback]

\* receive(size), in the stages of its body: header mode and payload length,
\* the handler, the DIO0 mapping, the switch to RxContinuous
receiveHeader(s, size) ==
    LET s1 == implicitHeaderMode(s, size > 0)
    IN  IF size > 0 THEN WriteRegister(s1, REG_PAYLOAD_LENGTH, BitAnd(size, 255))
        ELSE s1

receiveAttach(s) ==
    IF s.onRx THEN prepIrqHandler(s, "rx") ELSE prepIrqHandler(s, "none")

receiveMap(s) ==
    IF s.onRx THEN WriteRegister(s, REG_DIO_MAPPING_1, DIO0_RX_DONE) ELSE s

receiveArm(s) == receiveMap(receiveAttach(s))

receiveMode(s) ==
    WriteRegister(s, REG_OP_MODE, MODE_LONG_RANGE_MODE + MODE_RX_CONTINUOUS)

receive(s, size) == receiveMode(receiveArm(receiveHeader(s, size)))

\* beginPacket without the reset of the payload length
beginPacket_KeepLength(s, implicitHeader) ==
    LET s1 == implicitHeaderMode(standby(s), implicitHeader)
    IN  WriteRegister(s1, REG_FIFO_ADDR_PTR, FifoTxBaseAddr)

beginPacket(s, implicitHeader) ==
    LET s1 == implicitHeaderMode(standby(s), implicitHeader)
        s2 == WriteRegister(s1, REG_FIFO_ADDR_PTR, FifoTxBaseAddr)
    IN  WriteRegister(s2, REG_PAYLOAD_LENGTH, 0)

\* endPacket(), in the stages of its body: the handler, the DIO0 mapping, TX
\* mode
endPacketAttach(s) ==
    IF s.onTx THEN prepIrqHandler(s, "tx") ELSE prepIrqHandler(s, "none")

endPacketMap(s) ==
    IF s.onTx THEN WriteRegister(s, REG_DIO_MAPPING_1, DIO0_TX_DONE) ELSE s

endPacketArm(s) == endPacketMap(endPacketAttach(s))

endPacketMode(s) == WriteRegister(s, REG_OP_MODE, MODE_LONG_RANGE_MODE + MODE_TX)

endPacket(s) == endPacketMode(endPacketArm(s))

\* write without the capacity check
writeSize_Uncapped(s, buffer) == Len(buffer)

\* the number of bytes write(buffer) accepts, which it returns
writeSize(s, buffer) ==
    Min(Len(buffer),
        MAX_PKT_LENGTH - FifoTxBaseAddr - ReadRegister(s, REG_PAYLOAD_LENGTH))

\* the loop of write(): writeRegister(REG_FIFO, buffer[i]) for the first
\* `size` bytes of buffer, one after the other
writeBytes(s, buffer, size) == FifoWrites(s, SubSeq(buffer, 1, size))

write(s, buffer) ==
    LET currentLength == ReadRegister(s, REG_PAYLOAD_LENGTH)
        size == writeSize(s, buffer)
    IN  WriteRegister(writeBytes(s, buffer, size),
                      REG_PAYLOAD_LENGTH, currentLength + size)

\* getIrqFlags(): the flags read, and the chip with those flags cleared
irqFlagsOf(s) == ReadRegister(s, REG_IRQ_FLAGS)
getIrqFlags(s) == WriteRegister(s, REG_IRQ_FLAGS, irqFlagsOf(s))

\* read_payload(): [pay |-> the bytes read, sx |-> the chip after the reads]
packetLength(s) ==
    IF s.ihm = "True" THEN ReadRegister(s, REG_PAYLOAD_LENGTH)
    ELSE ReadRegister(s, REG_RX_NB_BYTES)

\* the loop of read_payload(): n times readRegister(REG_FIFO), appended in
\* order
readBytes(s, n) == [pay |-> FifoReads(s, n), sx |-> FifoAdvance(s, n)]

read_payload(s) ==
    LET s1 == WriteRegister(s, REG_FIFO_ADDR_PTR,
                            ReadRegister(s, REG_FIFO_RX_CURRENT_ADDR))
    IN  readBytes(s1, packetLength(s1))

\* receivedPacket(size): refused when a receive callback is registered;
\* otherwise the flags are read and cleared, the header mode and payload
\* length are set as in receive(), and unless exactly RxDone was read the chip
\* is put into single receive when it is in another mode
receivedPacket(s, size) ==
    IF s.onRx THEN s
    ELSE LET irqFlags == irqFlagsOf(s)
             s1 == receiveHeader(getIrqFlags(s), size)
         IN  IF irqFlags = IRQ_RX_DONE_MASK THEN s1
             ELSE IF ReadRegister(s1, REG_OP_MODE)
                         # MODE_LONG_RANGE_MODE + MODE_RX_SINGLE
             THEN WriteRegister(
                      WriteRegister(s1, REG_FIFO_ADDR_PTR, FifoRxBaseAddr),
                      REG_OP_MODE, MODE_LONG_RANGE_MODE + MODE_RX_SINGLE)
             ELSE s1

packetRssi(s) ==
    ReadRegister(s, REG_PKT_RSSI_VALUE) - (IF s.frequency < 868000000 THEN 164 ELSE 157)

\* packetSnr() is the register times 0.25; kept in quarters of a dB
packetSnr(s) == ReadRegister(s, REG_PKT_SNR_VALUE)

DEFAULT_PARAMETERS ==
    [ frequency |-> 915000000, tx_power_level |-> 5, signal_bandwidth |-> 125000,
      spreading_factor |-> 7, coding_rate |-> 5, preamble_length |-> 8,
      implicitHeader |-> FALSE, sync_word |-> 18, enable_CRC |-> TRUE ]

\* init() past the version check
configure(s, p) ==
    LET s1  == sleep(s)
        s2  == setFrequency(s1, p.frequency)
        s3  == setSignalBandwidth(s2, p.signal_bandwidth)
        s4  == WriteRegister(s3, REG_LNA, BitOr(ReadRegister(s3, REG_LNA), 3))
        s5  == WriteRegister(s4, REG_MODEM_CONFIG_3, 4)
        s6  == setTxPower(s5, p.tx_power_level)
        s7  == implicitHeaderMode([s6 EXCEPT !.ihm = "None"], p.implicitHeader)
        s8  == setSpreadingFactor(s7, p.spreading_factor)
        s9  == setCodingRate(s8, p.coding_rate)
        s10 == setPreambleLength(s9, p.preamble_length)
        s11 == setSyncWord(s10, p.sync_word)
        s12 == enableCRC(s11, p.enable_CRC)
        s13 == WriteRegister(s12, REG_FIFO_TX_BASE_ADDR, FifoTxBaseAddr)
        s14 == WriteRegister(s13, REG_FIFO_RX_BASE_ADDR, FifoRxBaseAddr)
    IN  standby(s14)

\* init(): raises, having written nothing, on another chip revision
initRaises(s) == ReadRegister(s, REG_VERSION) # REQUIRED_VERSION

\* init() that checks the revision only after configuring
init_ConfigureFirst(s, p) == configure(s, p)

init(s, p) == IF initRaises(s) THEN s ELSE configure(s, p)

\* The chip after the reset pulse of initLoraPins (the SX127x's documented
\* register defaults) and the driver object after SX127x.__init__ without
\* callbacks.
ResetReg ==
    [a \in Regs |->
        CASE a = REG_OP_MODE -> 9
          [] a = REG_FRF_MSB -> 108
          [] a = REG_FRF_MID -> 128
          [] a = REG_PA_CONFIG -> 79
          [] a = REG_LNA -> 32
          [] a = REG_FIFO_TX_BASE_ADDR -> 128
          [] a = REG_MODEM_CONFIG_1 -> 114
          [] a = REG_MODEM_CONFIG_2 -> 112
          [] a = REG_PREAMBLE_LSB -> 8
          [] a = REG_PAYLOAD_LENGTH -> 1
          [] a = REG_DETECTION_OPTIMIZE -> 195
          [] a = REG_DETECTION_THRESHOLD -> 10
          [] a = REG_SYNC_WORD -> 18
          [] a = REG_VERSION -> REQUIRED_VERSION
          [] OTHER -> 0]

NewSX127x ==
    [ reg |-> ResetReg, fifo |-> [i \in 1..256 |-> 0], air |-> << >>,
      handler |-> "none", ihm |-> "None", onRx |-> FALSE, onTx |-> FALSE,
      frequency |-> 0 ]

\* ------------------------------------------------------------ the chip
HasFlag(flags, mask) == BitAnd(flags, mask) # 0

Mode(s) == s.reg[REG_OP_MODE]

\* the level of the DIO0 line: RxDone under mapping 00, TxDone under 01
Dio0(s) ==
    LET m == s.reg[REG_DIO_MAPPING_1] \div 64
    IN  \/ m = 0 /\ HasFlag(s.reg[REG_IRQ_FLAGS], IRQ_RX_DONE_MASK)
        \/ m = 1 /\ HasFlag(s.reg[REG_IRQ_FLAGS], IRQ_TX_DONE_MASK)

\* A packet `raw` comes in while the chip listens: it is stored from the RX
\* byte address on, and the flags of the event (RxDone, with or without
\* PayloadCrcError) are raised.
chipReceives(s, raw, flags) ==
    LET at == s.reg[REG_FIFO_RX_BYTE_ADDR]
    IN  [s EXCEPT !.fifo = storeBytes(@, at, raw),
                  !.reg[REG_FIFO_RX_CURRENT_ADDR] = at,
                  !.reg[REG_FIFO_RX_BYTE_ADDR] = (at + Len(raw)) % 256,
                  !.reg[REG_RX_NB_BYTES] = Len(raw),
                  !.reg[REG_PKT_RSSI_VALUE] = 100 + Len(raw),
                  !.reg[REG_PKT_SNR_VALUE] = 40,
                  !.reg[REG_IRQ_FLAGS] = BitOr(@, flags)]

\* The transmission ends: TxDone is raised and the chip falls back to standby.
chipTxDone(s) ==
    [s EXCEPT !.reg[REG_IRQ_FLAGS] = BitOr(@, IRQ_TX_DONE_MASK),
              !.reg[REG_OP_MODE] = MODE_LONG_RANGE_MODE + MODE_STDBY]

\* ------------------------------------------------------------ LoraUtil
None == [none |-> TRUE]

\* _do_receive that keeps a packet already in the slot
do_receive_KeepFirst(s, pay, id) ==
    IF packet # None THEN packet
    ELSE IF Len(pay) # 0 /\ Len(pay) > 4
    THEN [ src_address |-> pay[1], dst_address |-> pay[2],
           src_line_count |-> pay[3], pay_length |-> pay[4],
           rssi |-> packetRssi(s), snr |-> packetSnr(s),
           msg |-> SubSeq(pay, 5, Len(pay)), id |-> id ]
    ELSE None

\* _do_receive that takes a bare header for a packet
do_receive_BareHeader(s, pay, id) ==
    IF Len(pay) # 0 /\ Len(pay) >= 4
    THEN [ src_address |-> pay[1], dst_address |-> pay[2],
           src_line_count |-> pay[3], pay_length |-> pay[4],
           rssi |-> packetRssi(s), snr |-> packetSnr(s),
           msg |-> SubSeq(pay, 5, Len(pay)), id |-> id ]
    ELSE None

\* _do_receive(sx12, pay): the value it leaves in self.packet. `id` numbers
\* the callback for the properties below; it is not a field of LoraPacket.
do_receive(s, pay, id) ==
    IF Len(pay) # 0 /\ Len(pay) > 4
    THEN [ src_address |-> pay[1], dst_address |-> pay[2],
           src_line_count |-> pay[3], pay_length |-> pay[4],
           rssi |-> packetRssi(s), snr |-> packetSnr(s),
           msg |-> SubSeq(pay, 5, Len(pay)), id |-> id ]
    ELSE None

is_packet_available(pkt) == pkt # None

\* write_int that saturates at 255 instead of keeping the low eight bits
write_int_Saturating(s, value) == write(s, << Min(value, 255) >>)

\* write_int(value): lora.write(bytearray([value]))
write_int(s, value) == write(s, << ToByte(value) >>)

\* the header with the two addresses in the wrong order
writeHeader_Swapped(s, src, dst, counter, payload) ==
    write_int(write_int(write_int(write_int(s, dst), src), counter), Len(payload))

\* the four header bytes of send_packet (lines 76-79)
writeHeader(s, src, dst, counter, payload) ==
    write_int(write_int(write_int(write_int(s, src), dst), counter), Len(payload))

\* lines 75-81 of send_packet
sendFrame(s, src, dst, counter, payload) ==
    endPacket(write(writeHeader(beginPacket(s, FALSE), src, dst, counter, payload),
                    payload))

\* LoraUtil.__init__ up to and including lora.receive()
NewLoraUtil ==
    receive(onTransmit(onReceive(init(NewSX127x, DEFAULT_PARAMETERS), TRUE), TRUE), 0)

\* ------------------------------------------------------------ bounds, inputs
MaxSends == 2       \* send_packet calls in the interleaved specification
MaxPrints == 1      \* println calls
MaxRx == 1          \* packets the chip receives in the interleaved specification
MaxPending == 2     \* scheduled handler invocations waiting to run
MaxCounter == 258   \* send_packet calls in the sequential specification
MaxRecv == 4        \* receive interrupts in the receiving specification
MaxPackets == 2     \* beginPacket calls in the driver specification
MaxBuffer == 256    \* the longest buffer passed to write
MaxWrites == 2      \* write calls per packet in the driver specification

Payload(n, seed) == SubSeq([i \in 1..n |-> (seed + 3 * i) % 256], 1, n)

Addrs == {1, 255}

\* what the application sends in the interleaved specification
AppPayloads == { Payload(3, 20) }
AppStrings == { Payload(1, 10) }

\* what the chip receives: an empty buffer, a bare header and two frames, and
\* a frame that fails its CRC (RxDone with PayloadCrcError)
RxEvents ==
    { [raw |-> << >>, flags |-> IRQ_RX_DONE_MASK],
      [raw |-> << 65, 255, 1, 0 >>, flags |-> IRQ_RX_DONE_MASK],
      [raw |-> << 65, 255, 2, 1, 104 >>, flags |-> IRQ_RX_DONE_MASK],
      [raw |-> << 66, 1, 9, 2, 104, 105 >>, flags |-> IRQ_RX_DONE_MASK],
      [raw |-> << 65, 255, 2, 1, 104 >>,
       flags |-> IRQ_RX_DONE_MASK + IRQ_PAYLOAD_CRC_ERROR_MASK] }

\* the receive events of the interleaved specification: a frame, and a frame
\* that fails its CRC
IsrRxEvents == { e \in RxEvents : Len(e.raw) = 5 }

\* ------------------------------------------------------------ initial state
AppIdle == [ pc |-> "idle", src |-> 0, dst |-> 0, payload |-> << >>, slt |-> 0,
             pkt |-> None ]
IsrIdle == [ pc |-> "idle", irqFlags |-> 0, payload |-> << >> ]
NoSend  == [ none |-> TRUE ]

\* no configuration call made yet
NoConfig == [ called |-> FALSE, raised |-> FALSE, p |-> DEFAULT_PARAMETERS,
              before |-> NewSX127x.reg, noop |-> FALSE ]

\* what the properties observe: nothing has happened yet
InitObs ==
    [ timeout |-> FALSE,   \* the last send_packet printed "Transmit timeout"
      sent |-> NoSend,     \* the arguments of the last send_packet
      returns |-> 0,       \* send_packet calls that have returned
      prints |-> 0,        \* println calls made
      begun |-> 0,         \* beginPacket calls made on the driver
      open |-> FALSE,      \* beginPacket was called, endPacket not yet
      writes |-> 0,        \* write calls since the last beginPacket
      written |-> << >>,   \* bytes accepted since the last beginPacket
      wr |-> NoSend,       \* the last write call: payload length and
                           \* address pointer before it, its buffer and
                           \* the count it returned
      rxn |-> 0,           \* packets the chip has received
      bufs |-> << >>,      \* the buffers of the receive callbacks run so
                           \* far; callback number i got bufs[i]
      fresh |-> 0,         \* the number of the callback whose packet is
                           \* in the slot; 0 when the slot was emptied
      superseded |-> {},   \* callbacks whose packet was in the slot, no
                           \* read_packet under way, when a later
                           \* callback delivered a packet
      got |-> None,        \* what the last read_packet took from the slot
      gotFresh |-> 0,      \* `fresh` when it took it
      returned |-> {},     \* callbacks whose packet a read_packet returned
      dup |-> FALSE,       \* some packet was returned twice
      cfg |-> NoConfig,    \* init() and the setters called on the driver
      onAir |-> 0,         \* the send_packet call (its linecounter) whose frame
                           \* the chip was last told to transmit; 0 for println
      raisedFor |-> 0,     \* the call whose transmission last raised TxDone
      readFor |-> 0,       \* the call whose TxDone the transmit handler last
                           \* read from the flags
      doneFor |-> 0 ]      \* the call whose TxDone the transmit callback last
                           \* ran for

Init ==
    /\ sx = NewLoraUtil
    /\ linecounter = 0
    /\ packet = None
    /\ done_transmit = FALSE
    /\ lock = "free"
    /\ app = AppIdle
    /\ isr = IsrIdle
    /\ pending = << >>
    /\ obs = InitObs

\* A DIO0 edge schedules the handler attached at that moment.
Edge(old, new, q) ==
    IF ~Dio0(old) /\ Dio0(new) /\ new.handler # "none" /\ Len(q) < MaxPending
    THEN Append(q, new.handler)
    ELSE q

\* the chip and driver move to `new`
Chip(new) ==
    /\ sx' = new
    /\ pending' = Edge(sx, new, pending)

acquire_lock(who) == lock = "free" /\ lock' = who
release_lock == lock' = "free"

Goto(pc) == app' = [app EXCEPT !.pc = pc]
IGoto(pc) == isr' = [isr EXCEPT !.pc = pc]

\* ------------------------------------------------------------ the chip's events
\* a packet arrives while the chip is in RxContinuous
ChipReceives ==
    /\ Mode(sx) = MODE_LONG_RANGE_MODE + MODE_RX_CONTINUOUS
    /\ obs.rxn < MaxRx
    /\ \E e \in IsrRxEvents : Chip(chipReceives(sx, e.raw, e.flags))
    /\ obs' = [obs EXCEPT !.rxn = @ + 1]
    /\ UNCHANGED << linecounter, packet, done_transmit, lock, app, isr >>

\* the transmission started by endPacket ends
ChipTxDone ==
    /\ Mode(sx) = MODE_LONG_RANGE_MODE + MODE_TX
    /\ Chip(chipTxDone(sx))
    /\ obs' = [obs EXCEPT !.raisedFor = obs.onAir]
    /\ UNCHANGED << linecounter, packet, done_transmit, lock, app, isr >>

\* ------------------------------------------------------------ LoraUtil.send_packet
\* lines 73-74
SpCall ==
    /\ app.pc = "idle"
    /\ linecounter < MaxSends
    /\ \E src \in {1}, dst \in {255}, payload \in AppPayloads :
          /\ app' = [app EXCEPT !.pc = "sp_begin", !.src = src, !.dst = dst,
                                !.payload = payload, !.slt = 0]
          /\ obs' = [obs EXCEPT !.timeout = FALSE,
                                !.sent = [src |-> src, dst |-> dst,
                                          payload |-> payload, before |-> linecounter]]
    /\ linecounter' = linecounter + 1
    /\ done_transmit' = FALSE
    /\ UNCHANGED << sx, packet, lock, isr, pending >>

\* line 75
SpBegin ==
    /\ app.pc = "sp_begin"
    /\ Chip(beginPacket(sx, FALSE))
    /\ Goto("sp_header")
    /\ UNCHANGED << linecounter, packet, done_transmit, lock, isr, obs >>

\* lines 76-79
SpHeader ==
    /\ app.pc = "sp_header"
    /\ Chip(writeHeader(sx, app.src, app.dst, linecounter, app.payload))
    /\ Goto("sp_payload")
    /\ UNCHANGED << linecounter, packet, done_transmit, lock, isr, obs >>

\* line 80
SpPayload ==
    /\ app.pc = "sp_payload"
    /\ Chip(write(sx, app.payload))
    /\ Goto("sp_end")
    /\ UNCHANGED << linecounter, packet, done_transmit, lock, isr, obs >>

\* line 81: endPacket attaches the handler ...
SpEndAttach ==
    /\ app.pc = "sp_end"
    /\ Chip(endPacketAttach(sx))
    /\ Goto("sp_map")
    /\ UNCHANGED << linecounter, packet, done_transmit, lock, isr, obs >>

\* ... maps DIO0 to TxDone ...
SpEndMap ==
    /\ app.pc = "sp_map"
    /\ Chip(endPacketMap(sx))
    /\ Goto("sp_tx")
    /\ UNCHANGED << linecounter, packet, done_transmit, lock, isr, obs >>

\* ... and puts the chip in TX mode; line 82
SpEndMode ==
    /\ app.pc = "sp_tx"
    /\ Chip(endPacketMode(sx))
    /\ app' = [app EXCEPT !.pc = "sp_wait", !.slt = 0]
    /\ obs' = [obs EXCEPT !.onAir = linecounter]
    /\ UNCHANGED << linecounter, packet, done_transmit, lock, isr >>

\* the wait loop's test, one poll too many
waitMore_OneMore(done, slt) == ~done /\ slt <= SLT_LIMIT

\* the wait loop's test
waitMore(done, slt) == ~done /\ slt < SLT_LIMIT

\* lines 83-85: one round of the wait loop
SpPoll ==
    /\ app.pc = "sp_wait"
    /\ waitMore(done_transmit, app.slt)
    /\ app' = [app EXCEPT !.slt = @ + 1]
    /\ UNCHANGED << sx, linecounter, packet, done_transmit, lock, isr, pending, obs >>

\* lines 86-87: the loop is left, the timeout is reported, send_packet returns
SpReturn ==
    /\ app.pc = "sp_wait"
    /\ ~waitMore(done_transmit, app.slt)
    /\ obs' = [obs EXCEPT !.timeout = (app.slt = SLT_LIMIT), !.returns = @ + 1]
    /\ app' = AppIdle
    /\ UNCHANGED << sx, linecounter, packet, done_transmit, lock, isr, pending >>

\* ------------------------------------------------------------ SX127x.println
PlCall ==
    /\ app.pc = "idle"
    /\ obs.prints < MaxPrints
    /\ \E string \in AppStrings :
          app' = [app EXCEPT !.pc = "pl_lock", !.payload = string]
    /\ obs' = [obs EXCEPT !.prints = @ + 1]
    /\ UNCHANGED << sx, linecounter, packet, done_transmit, lock, isr, pending >>

PlLock ==
    /\ app.pc = "pl_lock"
    /\ acquire_lock("app")
    /\ Goto("pl_begin")
    /\ UNCHANGED << sx, linecounter, packet, done_transmit, isr, pending, obs >>

PlBegin ==
    /\ app.pc = "pl_begin"
    /\ Chip(beginPacket(sx, FALSE))
    /\ Goto("pl_write")
    /\ UNCHANGED << linecounter, packet, done_transmit, lock, isr, obs >>

PlWrite ==
    /\ app.pc = "pl_write"
    /\ Chip(write(sx, app.payload))
    /\ Goto("pl_end")
    /\ UNCHANGED << linecounter, packet, done_transmit, lock, isr, obs >>

PlEndAttach ==
    /\ app.pc = "pl_end"
    /\ Chip(endPacketAttach(sx))
    /\ Goto("pl_map")
    /\ UNCHANGED << linecounter, packet, done_transmit, lock, isr, obs >>

PlEndMap ==
    /\ app.pc = "pl_map"
    /\ Chip(endPacketMap(sx))
    /\ Goto("pl_tx")
    /\ UNCHANGED << linecounter, packet, done_transmit, lock, isr, obs >>

PlEndMode ==
    /\ app.pc = "pl_tx"
    /\ Chip(endPacketMode(sx))
    /\ Goto("pl_unlock")
    /\ obs' = [obs EXCEPT !.onAir = 0]
    /\ UNCHANGED << linecounter, packet, done_transmit, lock, isr >>

PlUnlock ==
    /\ app.pc = "pl_unlock"
    /\ release_lock
    /\ app' = AppIdle
    /\ UNCHANGED << sx, linecounter, packet, done_transmit, isr, pending, obs >>

\* ------------------------------------------------------------ LoraUtil.read_packet
\* line 97: pkt = self.packet
RpTake ==
    /\ app.pc = "idle"
    /\ app' = [app EXCEPT !.pc = "rp_clear", !.pkt = packet]
    /\ obs' = [obs EXCEPT !.got = packet, !.gotFresh = obs.fresh]
    /\ UNCHANGED << sx, linecounter, packet, done_transmit, lock, isr, pending >>

\* read_packet that leaves the packet in the slot
RpClear_Keep ==
    /\ app.pc = "rp_clear"
    /\ app' = AppIdle
    /\ obs' = [obs EXCEPT
          !.returned = IF app.pkt # None THEN @ \cup {app.pkt.id} ELSE @,
          !.dup = @ \/ (app.pkt # None /\ app.pkt.id \in obs.returned)]
    /\ UNCHANGED << sx, linecounter, packet, done_transmit, lock, isr, pending >>

\* lines 98-99: self.packet = None; return pkt
RpClear ==
    /\ app.pc = "rp_clear"
    /\ packet' = None
    /\ app' = AppIdle
    /\ obs' = [obs EXCEPT
          !.fresh = 0,
          !.returned = IF app.pkt # None THEN @ \cup {app.pkt.id} ELSE @,
          !.dup = @ \/ (app.pkt # None /\ app.pkt.id \in obs.returned)]
    /\ UNCHANGED << sx, linecounter, done_transmit, lock, isr, pending >>

\* ------------------------------------------------------------ interrupt dispatch
\* the next scheduled handler starts
Dispatch ==
    /\ isr.pc = "idle"
    /\ pending # << >>
    /\ IGoto(IF Head(pending) = "rx" THEN "rx_lock" ELSE "tx_lock")
    /\ pending' = Tail(pending)
    /\ UNCHANGED << sx, linecounter, packet, done_transmit, lock, app, obs >>

\* ------------------------------------------------------------ SX127x._handleOnReceive
\* the test without its CRC and timeout part
rxValid_IgnoreErrors(s, irqFlags) ==
    /\ HasFlag(irqFlags, IRQ_RX_DONE_MASK)
    /\ s.onRx

\* the test of lines 337-339
rxValid(s, irqFlags) ==
    /\ HasFlag(irqFlags, IRQ_RX_DONE_MASK)
    /\ BitAnd(irqFlags, IRQ_PAYLOAD_CRC_ERROR_MASK + IRQ_RX_TIME_OUT_MASK) = 0
    /\ s.onRx

\* line 334
RxLock ==
    /\ isr.pc = "rx_lock"
    /\ acquire_lock("isr")
    /\ IGoto("rx_flags")
    /\ UNCHANGED << sx, linecounter, packet, done_transmit, app, pending, obs >>

\* lines 335-339
RxFlagsRead ==
    /\ isr.pc = "rx_flags"
    /\ Chip(getIrqFlags(sx))
    /\ isr' = [isr EXCEPT !.irqFlags = irqFlagsOf(sx),
                          !.pc = IF rxValid(sx, irqFlagsOf(sx)) THEN "rx_read"
                                 ELSE "rx_reject"]
    /\ UNCHANGED << linecounter, packet, done_transmit, lock, app, obs >>

\* line 341
RxReadPayload ==
    /\ isr.pc = "rx_read"
    /\ Chip(read_payload(sx).sx)
    /\ isr' = [isr EXCEPT !.payload = read_payload(sx).pay, !.pc = "rx_unlock"]
    /\ UNCHANGED << linecounter, packet, done_transmit, lock, app, obs >>

\* line 342
RxUnlock ==
    /\ isr.pc = "rx_unlock"
    /\ release_lock
    /\ IGoto("rx_callback")
    /\ UNCHANGED << sx, linecounter, packet, done_transmit, app, pending, obs >>

\* what is observed once the receive callback has run on buffer pay
Called(pay) ==
    [obs EXCEPT
       !.bufs = Append(@, pay),
       !.fresh = IF Len(pay) > 4 THEN Len(obs.bufs) + 1 ELSE 0,
       !.superseded = IF Len(pay) > 4 /\ packet # None /\ app.pc # "rp_clear"
                      THEN @ \cup {packet.id} ELSE @]

\* line 343: LoraUtil._do_receive
RxCallback ==
    /\ isr.pc = "rx_callback"
    /\ packet' = do_receive(sx, isr.payload, Len(obs.bufs) + 1)
    /\ obs' = Called(isr.payload)
    /\ isr' = IsrIdle
    /\ UNCHANGED << sx, linecounter, done_transmit, lock, app, pending >>

\* lines 345-353: no callback
RxReject ==
    /\ isr.pc = "rx_reject"
    /\ release_lock
    /\ isr' = IsrIdle
    /\ UNCHANGED << sx, linecounter, packet, done_transmit, app, pending, obs >>

\* ------------------------------------------------------------ SX127x._handleOnTransmit
\* line 357
TxLock ==
    /\ isr.pc = "tx_lock"
    /\ acquire_lock("isr")
    /\ IGoto("tx_flags")
    /\ UNCHANGED << sx, linecounter, packet, done_transmit, app, pending, obs >>

\* lines 358-359
TxFlagsRead ==
    /\ isr.pc = "tx_flags"
    /\ Chip(getIrqFlags(sx))
    /\ isr' = [isr EXCEPT !.irqFlags = irqFlagsOf(sx), !.pc = "tx_detach"]
    /\ obs' = [obs EXCEPT !.readFor = IF HasFlag(irqFlagsOf(sx), IRQ_TX_DONE_MASK)
                                      THEN obs.raisedFor ELSE @]
    /\ UNCHANGED << linecounter, packet, done_transmit, lock, app >>

\* a handler that does not test the flags it read
TxDetach_Unchecked ==
    /\ isr.pc = "tx_detach"
    /\ release_lock
    /\ Chip(prepIrqHandler(sx, "none"))
    /\ isr' = IF sx.onTx THEN [isr EXCEPT !.pc = "tx_callback"] ELSE IsrIdle
    /\ UNCHANGED << linecounter, packet, done_transmit, app, obs >>

\* lines 360-362 and 368-369: on TxDone the handler is detached, the lock
\* released and the callback, if any, called; otherwise the lock is released
TxDetach ==
    /\ isr.pc = "tx_detach"
    /\ release_lock
    /\ IF HasFlag(isr.irqFlags, IRQ_TX_DONE_MASK)
       THEN /\ Chip(prepIrqHandler(sx, "none"))
            /\ isr' = IF sx.onTx THEN [isr EXCEPT !.pc = "tx_callback"] ELSE IsrIdle
       ELSE /\ isr' = IsrIdle
            /\ UNCHANGED << sx, pending >>
    /\ UNCHANGED << linecounter, packet, done_transmit, app, obs >>

\* line 364: LoraUtil._do_transmit sets the flag and starts receive():
\* lines 63, 319-321
TxCallback ==
    /\ isr.pc = "tx_callback"
    /\ done_transmit' = TRUE
    /\ Chip(receiveHeader(sx, 0))
    /\ IGoto("tx_arm")
    /\ obs' = [obs EXCEPT !.doneFor = obs.readFor]
    /\ UNCHANGED << linecounter, packet, lock, app >>

\* receive(), lines 323-324 and 327
TxReceiveAttach ==
    /\ isr.pc = "tx_arm"
    /\ Chip(receiveAttach(sx))
    /\ IGoto("tx_map")
    /\ UNCHANGED << linecounter, packet, done_transmit, lock, app, obs >>

\* receive(), line 325
TxReceiveMap ==
    /\ isr.pc = "tx_map"
    /\ Chip(receiveMap(sx))
    /\ IGoto("tx_listen")
    /\ UNCHANGED << linecounter, packet, done_transmit, lock, app, obs >>

\* receive(), line 330
TxReceiveMode ==
    /\ isr.pc = "tx_listen"
    /\ Chip(receiveMode(sx))
    /\ isr' = IsrIdle
    /\ UNCHANGED << linecounter, packet, done_transmit, lock, app, obs >>

\* ------------------------------------------------------------ specification
AppStep ==
    \/ SpCall \/ SpBegin \/ SpHeader \/ SpPayload
    \/ SpEndAttach \/ SpEndMap \/ SpEndMode
    \/ SpPoll \/ SpReturn
    \/ PlCall \/ PlLock \/ PlBegin \/ PlWrite
    \/ PlEndAttach \/ PlEndMap \/ PlEndMode \/ PlUnlock

IsrStep ==
    \/ Dispatch
    \/ RxLock \/ RxFlagsRead \/ RxReadPayload \/ RxUnlock \/ RxCallback \/ RxReject
    \/ TxLock \/ TxFlagsRead \/ TxDetach \/ TxCallback
    \/ TxReceiveAttach \/ TxReceiveMap
    \/ TxReceiveMode

Next == AppStep \/ IsrStep \/ ChipReceives \/ ChipTxDone

Spec == Init /\ [][Next]_vars

\* ------------------------------------------------------------ sending, with fairness
\* send_packet alone: no println, no packet arrives.
SendRun ==
    \/ SpBegin \/ SpHeader \/ SpPayload \/ SpEndAttach \/ SpEndMap \/ SpEndMode
    \/ SpPoll \/ SpReturn

TxIsrStep ==
    \/ Dispatch
    \/ TxLock \/ TxFlagsRead \/ TxDetach \/ TxCallback
    \/ TxReceiveAttach \/ TxReceiveMap
    \/ TxReceiveMode

SendNext == SpCall \/ SendRun \/ TxIsrStep \/ ChipTxDone

\* The application thread runs a send_packet it has started to its end,
\* scheduled handlers start and run, and the chip ends every transmission it
\* starts. The application need not call again.
FairSend ==
    Init /\ [][SendNext]_vars
         /\ WF_vars(SendRun) /\ WF_vars(TxIsrStep) /\ WF_vars(ChipTxDone)

\* ------------------------------------------------------------ println, with fairness
\* println and the two handlers. A handler attached with Pin.irq runs in
\* interrupt context, on top of the application's thread of control: from its
\* first statement to its return the application does not run.
PrintCall == isr.pc = "idle" /\ PlCall

PrintSteps ==
    \/ PlLock \/ PlBegin \/ PlWrite
    \/ PlEndAttach \/ PlEndMap \/ PlEndMode \/ PlUnlock

PrintRun == isr.pc = "idle" /\ PrintSteps

PrintNext == PrintCall \/ PrintRun \/ IsrStep \/ ChipReceives \/ ChipTxDone

\* The application runs a println it has started to its end whenever no
\* handler is running, scheduled handlers start and run, and the chip ends
\* every transmission it starts.
FairPrint ==
    Init /\ [][PrintNext]_vars
         /\ WF_vars(PrintRun) /\ WF_vars(IsrStep) /\ WF_vars(ChipTxDone)

\* println and the two handlers with no assumption on scheduling: handler
\* statements interleave with the application's in every way.
HandlerNext == PlCall \/ PrintSteps \/ IsrStep \/ ChipReceives \/ ChipTxDone

SpecHandlers == Init /\ [][HandlerNext]_vars

\* ------------------------------------------------------------ whole handlers
\* _handleOnReceive run from its first line to its last: the chip afterwards,
\* whether the receive callback was called, and with which buffer
handleOnReceive(s) ==
    LET irqFlags == irqFlagsOf(s)
        s1 == getIrqFlags(s)
    IN  IF rxValid(s1, irqFlags)
        THEN [sx |-> read_payload(s1).sx, called |-> TRUE, pay |-> read_payload(s1).pay]
        ELSE [sx |-> s1, called |-> FALSE, pay |-> << >>]

\* _handleOnTransmit followed by the callback _do_transmit, if called: the
\* chip afterwards and whether the callback ran
handleOnTransmit(s) ==
    LET irqFlags == irqFlagsOf(s)
        s1 == getIrqFlags(s)
    IN  IF HasFlag(irqFlags, IRQ_TX_DONE_MASK)
        THEN IF s1.onTx
             THEN [sx |-> receive(prepIrqHandler(s1, "none"), 0), called |-> TRUE]
             ELSE [sx |-> prepIrqHandler(s1, "none"), called |-> FALSE]
        ELSE [sx |-> s1, called |-> FALSE]

\* ------------------------------------------------------------ sending, call by call
\* send_packet from call to return, with nothing else going on. Either the
\* transmission ends and its interrupt is handled during the wait, or the
\* wait runs out with the chip still transmitting.
MaxPayload == 252   \* the longest payload passed to send_packet

SendAddrs == { << 1, 255 >>, << 255, 0 >> }
SendPayloads == { Payload(n, 20) : n \in {0, 1, MaxPayload - 1, MaxPayload} }

SendPacket ==
    /\ app.pc = "idle" /\ isr.pc = "idle" /\ pending = << >>
    /\ linecounter < MaxCounter
    /\ \E a \in SendAddrs, payload \in SendPayloads, completes \in BOOLEAN :
          LET s1 == sendFrame(sx, a[1], a[2], linecounter + 1, payload)
              h == handleOnTransmit(chipTxDone(s1))
          IN  /\ sx' = IF completes THEN h.sx ELSE s1
              /\ done_transmit' = (completes /\ h.called)
              /\ obs' = [obs EXCEPT !.timeout = ~(completes /\ h.called),
                                    !.returns = @ + 1,
                                    !.sent = [src |-> a[1], dst |-> a[2],
                                              payload |-> payload,
                                              before |-> linecounter]]
    /\ linecounter' = linecounter + 1
    /\ UNCHANGED << packet, lock, app, isr, pending >>

\* the transmission of a send_packet that gave up ends, and its interrupt is
\* handled
LateTxDone ==
    /\ app.pc = "idle" /\ isr.pc = "idle" /\ pending = << >>
    /\ Mode(sx) = MODE_LONG_RANGE_MODE + MODE_TX
    /\ LET h == handleOnTransmit(chipTxDone(sx))
       IN  /\ sx' = h.sx
           /\ done_transmit' = (done_transmit \/ h.called)
    /\ UNCHANGED << linecounter, packet, lock, app, isr, pending, obs >>

SendCalls == SendPacket \/ LateTxDone

SpecSend == Init /\ [][SendCalls]_vars

\* ------------------------------------------------------------ receiving
\* A packet arrives while the chip listens, and the interrupt it raises is
\* handled to the end: _handleOnReceive and, if called, _do_receive.
Receive ==
    /\ isr.pc = "idle" /\ pending = << >>
    /\ Mode(sx) = MODE_LONG_RANGE_MODE + MODE_RX_CONTINUOUS
    /\ obs.rxn < MaxRecv
    /\ \E e \in RxEvents :
          LET arrived == chipReceives(sx, e.raw, e.flags)
              h == handleOnReceive(arrived)
          IN  IF Edge(sx, arrived, << >>) = << "rx" >>
              THEN /\ sx' = h.sx
                   /\ packet' = IF h.called
                                THEN do_receive(h.sx, h.pay, Len(obs.bufs) + 1)
                                ELSE packet
                   /\ obs' = IF h.called THEN [Called(h.pay) EXCEPT !.rxn = @ + 1]
                             ELSE [obs EXCEPT !.rxn = @ + 1]
              ELSE /\ sx' = arrived
                   /\ obs' = [obs EXCEPT !.rxn = @ + 1]
                   /\ UNCHANGED packet
    /\ UNCHANGED << linecounter, done_transmit, lock, app, isr, pending >>

\* receive interrupts and read_packet calls; an interrupt may fall between
\* the two statements of read_packet
RecvCalls == Receive \/ RpTake \/ RpClear

SpecRecv == Init /\ [][RecvCalls]_vars

\* ------------------------------------------------------------ the driver, call by call
\* beginPacket, write and endPacket called on the driver directly
WriteBuffers ==
    { Payload(n, 40) : n \in {0, 1, MaxBuffer \div 2 - 1, MaxBuffer \div 2,
                              MaxBuffer - 1, MaxBuffer} }

Quiet == app.pc = "idle" /\ isr.pc = "idle" /\ pending = << >>

BeginPacket ==
    /\ Quiet
    /\ obs.begun < MaxPackets
    /\ sx' = beginPacket(sx, FALSE)
    /\ obs' = [obs EXCEPT !.begun = @ + 1, !.open = TRUE, !.writes = 0,
                          !.written = << >>, !.wr = NoSend]
    /\ UNCHANGED << linecounter, packet, done_transmit, lock, app, isr, pending >>

\* write(buffer), before the first beginPacket or between beginPacket and
\* endPacket
Write ==
    /\ Quiet
    /\ obs.open \/ obs.begun = 0
    /\ obs.writes < MaxWrites
    /\ \E buffer \in WriteBuffers :
          /\ sx' = write(sx, buffer)
          /\ obs' = [obs EXCEPT
                !.writes = @ + 1,
                !.written = @ \o SubSeq(buffer, 1, writeSize(sx, buffer)),
                !.wr = [L |-> ReadRegister(sx, REG_PAYLOAD_LENGTH),
                        ptr |-> ReadRegister(sx, REG_FIFO_ADDR_PTR),
                        buffer |-> buffer,
                        ret |-> writeSize(sx, buffer)]]
    /\ UNCHANGED << linecounter, packet, done_transmit, lock, app, isr, pending >>

EndPacket ==
    /\ Quiet
    /\ obs.open
    /\ sx' = endPacket(sx)
    /\ obs' = [obs EXCEPT !.open = FALSE]
    /\ UNCHANGED << linecounter, packet, done_transmit, lock, app, isr, pending >>

DriverCalls == BeginPacket \/ Write \/ EndPacket \/ LateTxDone

SpecDriver == Init /\ [][DriverCalls]_vars

\* ------------------------------------------------------------ configuration
\* init() and the setters called on a driver object fresh from __init__, on a
\* chip of any revision
Versions == { REQUIRED_VERSION, REQUIRED_VERSION - 1, 0, 255 }

InitParams ==
    { DEFAULT_PARAMETERS,
      [ frequency |-> 868000000, tx_power_level |-> 14, signal_bandwidth |-> 500000,
        spreading_factor |-> 12, coding_rate |-> 8, preamble_length |-> 8,
        implicitHeader |-> TRUE, sync_word |-> 52, enable_CRC |-> FALSE ] }

SfArgs == { 0, 5, 6, 7, 12, 13, 255 }
BwArgs == { 7800, 7801, 125000, 250000, 250001 }
CrArgs == { 4, 5, 8, 9 }

PowerOn ==
    /\ \E v \in Versions : sx = [NewSX127x EXCEPT !.reg[REG_VERSION] = v]
    /\ linecounter = 0
    /\ packet = None
    /\ done_transmit = FALSE
    /\ lock = "free"
    /\ app = AppIdle
    /\ isr = IsrIdle
    /\ pending = << >>
    /\ obs = InitObs

Configured == obs.cfg.called /\ ~obs.cfg.raised

InitDriver ==
    /\ ~obs.cfg.called
    /\ \E p \in InitParams :
          /\ sx' = init(sx, p)
          /\ obs' = [obs EXCEPT !.cfg = [ called |-> TRUE, raised |-> initRaises(sx),
                                         p |-> p, before |-> sx.reg,
                                         noop |-> FALSE ]]
    /\ UNCHANGED << linecounter, packet, done_transmit, lock, app, isr, pending >>

SetSignalBandwidth ==
    /\ Configured
    /\ \E sbw \in BwArgs :
          /\ sx' = setSignalBandwidth(sx, sbw)
          /\ obs' = [obs EXCEPT !.cfg.p.signal_bandwidth = sbw]
    /\ UNCHANGED << linecounter, packet, done_transmit, lock, app, isr, pending >>

SetCodingRate ==
    /\ Configured
    /\ \E denominator \in CrArgs :
          /\ sx' = setCodingRate(sx, denominator)
          /\ obs' = [obs EXCEPT !.cfg.p.coding_rate = denominator]
    /\ UNCHANGED << linecounter, packet, done_transmit, lock, app, isr, pending >>

ImplicitHeaderMode ==
    /\ Configured
    /\ \E m \in BOOLEAN :
          /\ sx' = implicitHeaderMode(sx, m)
          /\ obs' = [obs EXCEPT !.cfg.p.implicitHeader = m,
                                !.cfg.noop = (sx.ihm = PyBool(m))]
    /\ UNCHANGED << linecounter, packet, done_transmit, lock, app, isr, pending >>

SetSpreadingFactor ==
    /\ Configured
    /\ \E sf \in SfArgs :
          /\ sx' = setSpreadingFactor(sx, sf)
          /\ obs' = [obs EXCEPT !.cfg.p.spreading_factor = sf]
    /\ UNCHANGED << linecounter, packet, done_transmit, lock, app, isr, pending >>

EnableCRC ==
    /\ Configured
    /\ \E enable_CRC \in BOOLEAN :
          /\ sx' = enableCRC(sx, enable_CRC)
          /\ obs' = [obs EXCEPT !.cfg.p.enable_CRC = enable_CRC]
    /\ UNCHANGED << linecounter, packet, done_transmit, lock, app, isr, pending >>

\* the calls that set the header mode on their way: beginPacket with either
\* header mode, receive and receivedPacket with a size of 0 (explicit header)
\* or above (implicit header)
HeaderSizes == { 0, 5, 256 }

ConfigBeginPacket ==
    /\ Configured
    /\ \E implicitHeader \in BOOLEAN :
          /\ sx' = beginPacket(sx, implicitHeader)
          /\ obs' = [obs EXCEPT !.cfg.p.implicitHeader = implicitHeader,
                                !.cfg.noop = (sx.ihm = PyBool(implicitHeader))]
    /\ UNCHANGED << linecounter, packet, done_transmit, lock, app, isr, pending >>

ConfigReceive ==
    /\ Configured
    /\ \E size \in HeaderSizes :
          /\ sx' = receive(sx, size)
          /\ obs' = [obs EXCEPT !.cfg.p.implicitHeader = (size > 0),
                                !.cfg.noop = (sx.ihm = PyBool(size > 0))]
    /\ UNCHANGED << linecounter, packet, done_transmit, lock, app, isr, pending >>

ConfigReceivedPacket ==
    /\ Configured
    /\ \E size \in HeaderSizes :
          /\ sx' = receivedPacket(sx, size)
          /\ obs' = [obs EXCEPT !.cfg.p.implicitHeader = (size > 0),
                                !.cfg.noop = (sx.ihm = PyBool(size > 0))]
    /\ UNCHANGED << linecounter, packet, done_transmit, lock, app, isr, pending >>

ConfigCalls ==
    \/ InitDriver
    \/ SetSignalBandwidth
    \/ SetCodingRate
    \/ ImplicitHeaderMode
    \/ SetSpreadingFactor
    \/ EnableCRC
    \/ ConfigBeginPacket
    \/ ConfigReceive
    \/ ConfigReceivedPacket

SpecConfig == PowerOn /\ [][ConfigCalls]_vars

\* ------------------------------------------------------------ properties
InSendPacket ==
    app.pc \in {"sp_begin", "sp_header", "sp_payload", "sp_end", "sp_map", "sp_tx",
                "sp_wait"}

\* after beginPacket and before the end of endPacket, in either transmit path
InTransmitSetup ==
    app.pc \in {"sp_header", "sp_payload", "sp_end", "sp_map", "sp_tx",
                "pl_write", "pl_end", "pl_map", "pl_tx"}

RxArmed ==
    /\ Mode(sx) = MODE_LONG_RANGE_MODE + MODE_RX_CONTINUOUS
    /\ sx.handler = "rx"
    /\ sx.reg[REG_DIO_MAPPING_1] = DIO0_RX_DONE

\* C1: no step of the receive handler's critical section (the read and clear
\* of the IRQ flags, the FIFO read) is taken while a transmit path is between
\* its beginPacket and the end of its endPacket.
C1_TransmitExcludesReceive ==
    [][(isr.pc \in {"rx_flags", "rx_read"} /\ isr'.pc # isr.pc) => ~InTransmitSetup]_vars

\* C7: once send_packet has put its frame on air (endPacket has returned and
\* the wait begins), a state follows in which the chip listens in RxContinuous
\* with the receive handler attached to DIO0 and DIO0 mapped to RxDone.
C7_RearmedAfterSend == (app.pc = "sp_wait") ~> RxArmed


\* C6: send_packet always terminates. Its wait loop polls at most SLT_LIMIT
\* times, a call in progress always returns, and a return with the
\* transmit-done flag still false has polled SLT_LIMIT times and reports the
\* timeout.
C6_SendTerminates ==
    /\ [](app.slt <= SLT_LIMIT)
    /\ InSendPacket ~> (app.pc = "idle")
    /\ [][(app.pc = "sp_wait" /\ app'.pc = "idle" /\ ~done_transmit)
            => (app.slt = SLT_LIMIT /\ obs'.timeout)]_vars

\* a send_packet has given up after SLT_LIMIT polls and has returned
C6_TimedOut ==
    obs.timeout /\ obs.returns >= 1 /\ ~done_transmit /\ app.pc = "idle"
\* ------------------------------------------------------------ the frame
\* the frame the last send_packet put on air
Frame == sx.air

\* what the receive path of a peer, listening since its construction, makes
\* of a frame: the pending packet after the interrupt is handled
received(frame) ==
    LET h == handleOnReceive(chipReceives(NewLoraUtil, frame, IRQ_RX_DONE_MASK))
    IN  IF h.called THEN do_receive(h.sx, h.pay, 1) ELSE None

\* the fields of packet p are the arguments of the last send_packet
SameFields(p) ==
    /\ p # None
    /\ p.src_address = obs.sent.src
    /\ p.dst_address = obs.sent.dst
    /\ p.msg = obs.sent.payload

\* C2: round trip. For a payload of 1 to 251 bytes, the frame of
\* send_packet(src, dst, payload) handed to the receive path yields a pending
\* packet with the same src, dst and payload, and with the sender's counter
\* before the send plus one, modulo 256, as sequence number.
C2_RoundTrip ==
    (obs.sent # NoSend /\ Len(obs.sent.payload) \in 1..(MAX_PKT_LENGTH - 4)) =>
        /\ SameFields(received(Frame))
        /\ received(Frame).src_line_count = (obs.sent.before + 1) % 256

\* C2 as stated: payloads of 0 to 251 bytes, and the sequence number is the
\* counter before the send plus one.
C2_RoundTripAsStated ==
    (obs.sent # NoSend /\ Len(obs.sent.payload) \in 0..(MAX_PKT_LENGTH - 4)) =>
        /\ SameFields(received(Frame))
        /\ received(Frame).src_line_count = obs.sent.before + 1

\* a longest payload sent as the counter passes 255 has made the round trip
C2_LongestAtWrap ==
    /\ obs.sent # NoSend
    /\ Len(obs.sent.payload) = MAX_PKT_LENGTH - 4
    /\ obs.sent.before = 255
    /\ obs.sent.src # obs.sent.dst
    /\ SameFields(received(Frame))

\* C8: the n-th send_packet writes n mod 256 as byte 2 of its frame, and the
\* frame is complete: the header, the payload (as far as write accepts it)
\* and the transmission started by endPacket.
C8_SequenceWraps ==
    obs.sent # NoSend =>
        /\ linecounter = obs.returns
        /\ Frame = << obs.sent.src, obs.sent.dst, obs.returns % 256,
                      Len(obs.sent.payload) % 256 >>
                   \o SubSeq(obs.sent.payload, 1,
                             Min(Len(obs.sent.payload), MAX_PKT_LENGTH - 4))

\* the 256th send has gone out with sequence number 0
C8_Wrapped ==
    obs.returns = 256 /\ Len(Frame) > 4 /\ Frame[3] = 0

\* C9: in every frame of send_packet the payload-length byte (byte 3) is the
\* number of payload bytes that follow the header.
C9_LengthByteMatches ==
    obs.sent # NoSend => (Len(Frame) >= 4 /\ Frame[4] = Len(Frame) - 4)
\* ------------------------------------------------------------ the slot
\* packet p is the one _do_receive builds from the buffer of callback i
BuiltFrom(p, i) ==
    /\ p # None
    /\ p.id = i
    /\ Len(obs.bufs[i]) > 4
    /\ p.src_address = obs.bufs[i][1]
    /\ p.dst_address = obs.bufs[i][2]
    /\ p.src_line_count = obs.bufs[i][3]
    /\ p.msg = SubSeq(obs.bufs[i], 5, Len(obs.bufs[i]))

\* C3: one slot, the last writer wins. A read_packet that follows receive
\* callbacks that delivered packets returns the packet of the last of them,
\* and a packet overwritten in the slot by a later one, with no read_packet
\* in between, is returned by no read_packet.
C3_LastWriterWins ==
    /\ obs.gotFresh # 0 => BuiltFrom(obs.got, obs.gotFresh)
    /\ obs.returned \cap obs.superseded = {}

\* two callbacks delivered a packet before the first read_packet, which
\* returned the second; a later read_packet returned nothing
C3_SecondReturned ==
    /\ 1 \in obs.superseded /\ 2 \in obs.returned
    /\ app.pc = "idle" /\ obs.got = None

\* C4: is_packet_available() is true exactly when the slot holds a packet,
\* the one of the last delivering callback not read since; read_packet()
\* returns what the slot holds, nothing when it is empty, and empties it; no
\* packet is returned twice.
C4_SlotSemantics ==
    /\ is_packet_available(packet) <=> (obs.fresh # 0)
    /\ obs.fresh # 0 => BuiltFrom(packet, obs.fresh)
    /\ obs.gotFresh = 0 => obs.got = None
    /\ obs.gotFresh # 0 => (obs.got # None /\ obs.got.id = obs.gotFresh)
    /\ app.pc = "rp_clear" => app.pkt = obs.got
    /\ (app.pc = "idle" /\ obs.got # None) => obs.got.id \in obs.returned
    /\ ~obs.dup

\* a packet was returned, a later callback delivered another, and a
\* read_packet has just emptied the slot
C4_ReadAgain ==
    /\ 1 \in obs.returned /\ 2 \in obs.returned
    /\ app.pc = "idle" /\ ~is_packet_available(packet)

\* C5: a buffer of four bytes or less never becomes a packet. After the
\* callback has run on it the slot is empty, and no read_packet holds or has
\* returned a packet of that callback.
C5_ShortNeverDelivered ==
    /\ \A i \in 1..Len(obs.bufs) :
          Len(obs.bufs[i]) <= 4 =>
             /\ i \notin obs.returned
             /\ packet # None => packet.id # i
             /\ app.pkt # None => app.pkt.id # i
    /\ (obs.bufs # << >> /\ Len(obs.bufs[Len(obs.bufs)]) <= 4) => packet = None

\* callbacks have run on an empty buffer and on a bare header, and a
\* read_packet called after them finds nothing
C5_ShortHandled ==
    /\ \E i, j \in 1..Len(obs.bufs) : Len(obs.bufs[i]) = 0 /\ Len(obs.bufs[j]) = 4
    /\ Len(obs.bufs[Len(obs.bufs)]) <= 4
    /\ app.pc = "rp_clear" /\ app.pkt = None
\* ------------------------------------------------------------ write
\* C10: write(buffer) is capacity-bounded. With L the payload length before
\* the call it returns min(len(buffer), 255 - L), has put that many bytes of
\* buffer, in order, in the FIFO from the address pointer on, and leaves the
\* payload length at L plus that count; after beginPacket and any writes the
\* payload length is the number of bytes written, they lie in the FIFO from
\* the TX base address on, and it never exceeds 255.
C10_WriteBounded ==
    /\ (obs.wr # NoSend /\ (obs.open \/ obs.begun = 0)) =>
          /\ obs.wr.ret = Min(Len(obs.wr.buffer), MAX_PKT_LENGTH - obs.wr.L)
          /\ FifoSlice(sx.fifo, obs.wr.ptr, obs.wr.ret)
                = SubSeq(obs.wr.buffer, 1, obs.wr.ret)
          /\ ReadRegister(sx, REG_PAYLOAD_LENGTH) = obs.wr.L + obs.wr.ret
          /\ ReadRegister(sx, REG_FIFO_ADDR_PTR) = (obs.wr.ptr + obs.wr.ret) % 256
    /\ obs.open =>
          /\ ReadRegister(sx, REG_PAYLOAD_LENGTH) = Len(obs.written)
          /\ Len(obs.written) <= MAX_PKT_LENGTH
          /\ FifoSlice(sx.fifo, FifoTxBaseAddr, Len(obs.written)) = obs.written

\* a write after beginPacket was cut short: it filled the packet to 255 bytes
C10_Truncated ==
    /\ obs.open /\ obs.writes >= 2 /\ obs.wr # NoSend
    /\ 0 < obs.wr.ret /\ obs.wr.ret < Len(obs.wr.buffer)
    /\ ReadRegister(sx, REG_PAYLOAD_LENGTH) = MAX_PKT_LENGTH

\* ------------------------------------------------------------ configuration
\* C11: init() fails exactly when the version register does not hold the
\* required revision, and a failed init() has written no register: every
\* register (chip mode, configuration, FIFO base addresses) and the FIFO are as
\* before the call, and the chip is not in LoRa standby.
C11_InitRejectsRevision ==
    obs.cfg.called =>
        /\ obs.cfg.raised <=> obs.cfg.before[REG_VERSION] # REQUIRED_VERSION
        /\ obs.cfg.raised =>
              /\ sx.reg = obs.cfg.before
              /\ sx.fifo = NewSX127x.fifo
              /\ Mode(sx) # MODE_LONG_RANGE_MODE + MODE_STDBY

\* init() was called on a chip of revision 0x11 and failed
C11_Rejected ==
    obs.cfg.raised /\ sx.reg[REG_VERSION] = REQUIRED_VERSION - 1

\* C12: the bandwidth field of REG_MODEM_CONFIG_1 holds the index of the
\* smallest of the nine bins that is >= the sbw of the last
\* setSignalBandwidth(sbw), index 8 when sbw is larger than every bin; it is
\* always in 0..8.
C12_BandwidthBin ==
    Configured =>
        LET sbw == obs.cfg.p.signal_bandwidth
            bw  == ReadRegister(sx, REG_MODEM_CONFIG_1) \div 16
        IN  /\ bw \in 0..8
            /\ IF sbw > bins[9] THEN bw = 8
               ELSE /\ sbw <= bins[bw + 1]
                    /\ \A i \in 1..bw : sbw > bins[i]

\* C13: after init() and any sequence of setter calls, every field of
\* REG_MODEM_CONFIG_1 and REG_MODEM_CONFIG_2 decodes through its mask to the
\* clamped value of the most recent call that set it: the bandwidth bin (the
\* largest of the nine for an sbw above them all), the coding rate
\* denominator clamped to 5..8 less 4, the header mode bit, the spreading
\* factor clamped to 6..12 and the CRC bit.
C13_FieldsDecode ==
    Configured =>
        LET p == obs.cfg.p
            modem_config_1 == ReadRegister(sx, REG_MODEM_CONFIG_1)
            modem_config_2 == ReadRegister(sx, REG_MODEM_CONFIG_2)
            bin == IF p.signal_bandwidth > bins[9] THEN 8
                   ELSE Cardinality({ i \in 1..9 : bins[i] < p.signal_bandwidth })
        IN  /\ modem_config_1 \div 16 = bin
            /\ (modem_config_1 \div 2) % 8 = Min(Max(p.coding_rate, 5), 8) - 4
            /\ modem_config_1 % 2 = (IF p.implicitHeader THEN 1 ELSE 0)
            /\ modem_config_2 \div 16 = Min(Max(p.spreading_factor, 6), 12)
            /\ (modem_config_2 \div 4) % 2 = (IF p.enable_CRC THEN 1 ELSE 0)

\* C14: from every register state, setSpreadingFactor(x) with x < 6 leaves
\* the chip and driver in the state setSpreadingFactor(6) leaves them in, and
\* with x > 12 in the state setSpreadingFactor(12) leaves them in.
C14_SpreadingFactorClamped ==
    \A x \in SfArgs :
        /\ x < 6 => setSpreadingFactor(sx, x) = setSpreadingFactor(sx, 6)
        /\ x > 12 => setSpreadingFactor(sx, x) = setSpreadingFactor(sx, 12)

\* setSpreadingFactor(13) was the last call that set the spreading factor:
\* the field holds 12, with the detection settings of a factor above 6
C14_ClampedAbove ==
    /\ Configured
    /\ obs.cfg.p.spreading_factor = 13
    /\ ReadRegister(sx, REG_MODEM_CONFIG_2) \div 16 = 12
    /\ ReadRegister(sx, REG_DETECTION_OPTIMIZE) = 195

\* ------------------------------------------------------------ the handlers
\* C15: every invocation of the receive handler reads and clears the IRQ
\* flags while it holds the lock; it returns with the lock released; it has
\* called the receive callback if and only if the flags it read have RxDone
\* set, PayloadCrcError and RxTimeout clear, and a callback is registered; a
\* callback is called on the payload read under the lock, after the lock was
\* released.
C15_ReceiveHandler ==
    [][ /\ (isr.pc = "rx_flags" /\ isr'.pc # "rx_flags") =>
              /\ lock = "isr"
              /\ isr'.irqFlags = sx.reg[REG_IRQ_FLAGS]
              /\ sx'.reg[REG_IRQ_FLAGS] = 0
        /\ (isr.pc = "rx_read" /\ isr'.pc # "rx_read") =>
              /\ lock = "isr"
              /\ isr'.payload = read_payload(sx).pay
        /\ (isr.pc \in {"rx_lock", "rx_flags", "rx_read", "rx_unlock",
                         "rx_callback", "rx_reject"} /\ isr'.pc = "idle") =>
              /\ lock' # "isr"
              /\ obs'.bufs # obs.bufs <=>
                    /\ HasFlag(isr.irqFlags, IRQ_RX_DONE_MASK)
                    /\ ~HasFlag(isr.irqFlags, IRQ_PAYLOAD_CRC_ERROR_MASK)
                    /\ ~HasFlag(isr.irqFlags, IRQ_RX_TIME_OUT_MASK)
                    /\ sx.onRx
              /\ obs'.bufs # obs.bufs =>
                    /\ lock # "isr"
                    /\ obs'.bufs = Append(obs.bufs, isr.payload)
        /\ obs'.bufs # obs.bufs => isr.pc = "rx_callback" ]_vars

\* the receive handler has called the callback on the 5-byte frame it read
C15_CallbackRan ==
    /\ Len(obs.bufs) = 1
    /\ Len(obs.bufs[1]) = 5
    /\ isr.pc = "idle"

\* C16: the transmit handler reads the flags under the lock; it calls the
\* transmit callback only when the flags it read have TxDone set, after
\* detaching the DIO0 handler and releasing the lock; when TxDone is not set
\* it releases the lock and returns, with no callback, the handler still
\* attached and done_transmit unchanged.
C16_TransmitHandler ==
    [][ /\ (isr.pc = "tx_flags" /\ isr'.pc # "tx_flags") =>
              /\ lock = "isr"
              /\ isr'.irqFlags = sx.reg[REG_IRQ_FLAGS]
        /\ (isr.pc = "tx_detach" /\ isr'.pc # "tx_detach") =>
              IF HasFlag(isr.irqFlags, IRQ_TX_DONE_MASK)
              THEN /\ sx'.handler = "none"
                   /\ lock' = "free"
              ELSE /\ lock' = "free"
                   /\ isr'.pc = "idle"
                   /\ sx' = sx
                   /\ done_transmit' = done_transmit
        /\ (isr.pc = "tx_callback" /\ isr'.pc # "tx_callback") =>
              /\ HasFlag(isr.irqFlags, IRQ_TX_DONE_MASK)
              /\ lock # "isr"
        /\ (done_transmit' /\ ~done_transmit) => isr.pc = "tx_callback" ]_vars

\* the transmit handler holds the lock and has read flags without TxDone
C16_NotTxDone ==
    /\ isr.pc = "tx_detach"
    /\ lock = "isr"
    /\ ~HasFlag(isr.irqFlags, IRQ_TX_DONE_MASK)
    /\ sx.handler = "tx"

\* C17: while the chip can raise an event (it transmits or listens) the
\* transmit handler is attached only with DIO0 mapped to TxDone and the
\* receive handler only with DIO0 mapped to RxDone, and every DIO0 edge
\* schedules the handler of the event that raised it.
C17_HandlerMatchesMapping ==
    [][ /\ Mode(sx') \in { MODE_LONG_RANGE_MODE + MODE_TX,
                           MODE_LONG_RANGE_MODE + MODE_RX_CONTINUOUS } =>
              /\ sx'.handler = "tx" => sx'.reg[REG_DIO_MAPPING_1] = DIO0_TX_DONE
              /\ sx'.handler = "rx" => sx'.reg[REG_DIO_MAPPING_1] = DIO0_RX_DONE
        /\ Len(pending') > Len(pending) =>
              \/ /\ pending'[Len(pending')] = "tx"
                 /\ sx'.reg[REG_DIO_MAPPING_1] = DIO0_TX_DONE
              \/ /\ pending'[Len(pending')] = "rx"
                 /\ sx'.reg[REG_DIO_MAPPING_1] = DIO0_RX_DONE ]_vars

\* ------------------------------------------------------------ the timeout
\* C20: send_packet reports a timeout if and only if done_transmit is still
\* false when the wait loop exits.
C20_TimeoutIffNotDone ==
    [][ (app.pc = "sp_wait" /\ app'.pc = "idle") =>
            (obs'.timeout <=> ~done_transmit) ]_vars

\* ------------------------------------------------------------ beginPacket
\* C19: right after beginPacket, whatever the mode, FIFO pointer and payload
\* length before it, the chip is in standby, the FIFO address pointer is at
\* the TX base address and the payload length is 0; the frame the following
\* endPacket sends is exactly the bytes written since that beginPacket.
C19_BeginPacketResets ==
    /\ (obs.open /\ obs.writes = 0) =>
          /\ Mode(sx) = MODE_LONG_RANGE_MODE + MODE_STDBY
          /\ ReadRegister(sx, REG_FIFO_ADDR_PTR) = FifoTxBaseAddr
          /\ ReadRegister(sx, REG_PAYLOAD_LENGTH) = 0
    /\ (~obs.open /\ obs.begun > 0) => Frame = obs.written

\* a second packet of one byte was sent while bytes of the first, longer one
\* were still in the FIFO behind it
C19_SentOverLeftovers ==
    /\ obs.begun = 2
    /\ ~obs.open
    /\ Len(obs.written) = 1
    /\ sx.fifo[FifoTxBaseAddr + 3] # 0

\* ------------------------------------------------------------ the lock
\* C18: whenever println or an interrupt handler requests the lock it
\* eventually holds it, and a holder eventually releases it.
C18_LockObtained ==
    /\ (app.pc = "pl_lock") ~> (lock = "app")
    /\ (isr.pc \in {"rx_lock", "tx_lock"}) ~> (lock = "isr")
    /\ (lock # "free") ~> (lock = "free")

\* ------------------------------------------------------------ completion
\* C21: when send_packet returns without reporting a timeout, the transmit
\* callback has run for the TxDone of the frame this very call put on air.
C21_CompletedOwnFrame ==
    [][ (app.pc = "sp_wait" /\ app'.pc = "idle" /\ ~obs'.timeout) =>
            obs.doneFor = linecounter ]_vars

\* ------------------------------------------------------------ malformed frames
\* C22: when the receive callback runs on a buffer of four bytes or less
\* while the slot holds a packet no read_packet has taken, the slot holds the
\* same packet afterwards.
C22_MalformedKeepsPending ==
    [][ ( /\ packet # None
          /\ app.pc = "idle"
          /\ Len(obs'.bufs) = Len(obs.bufs) + 1
          /\ Len(obs'.bufs[Len(obs'.bufs)]) <= 4 ) =>
            packet' = packet ]_vars

\* C23: after init(), whatever beginPacket, receive, receivedPacket,
\* implicitHeaderMode and setter calls followed, the header mode the driver
\* tracks is the one bit 0 of REG_MODEM_CONFIG_1 selects; so
\* implicitHeaderMode(m), no-op or not, leaves the bit at m, and read_payload
\* takes its length from the register of the chip's header mode.
C23_TrackedModeIsRegisterBit ==
    Configured =>
        LET bit == ReadRegister(sx, REG_MODEM_CONFIG_1) % 2
        IN  /\ sx.ihm \in { "True", "False" }
            /\ (sx.ihm = "True") <=> (bit = 1)
            /\ \A m \in BOOLEAN :
                  ReadRegister(implicitHeaderMode(sx, m), REG_MODEM_CONFIG_1) % 2
                      = (IF m THEN 1 ELSE 0)
            /\ packetLength(sx) =
                  ReadRegister(sx, IF bit = 1 THEN REG_PAYLOAD_LENGTH
                                   ELSE REG_RX_NB_BYTES)

\* a call asked for the implicit header mode the driver already tracked, after
\* setCodingRate(9) and receive(5): implicitHeaderMode took its no-op, the
\* bit is set, and the payload length register differs from REG_RX_NB_BYTES
C23_NoOpInImplicitMode ==
    /\ Configured
    /\ obs.cfg.noop
    /\ sx.ihm = "True"
    /\ obs.cfg.p.coding_rate = 9
    /\ ReadRegister(sx, REG_PAYLOAD_LENGTH) = 5
    /\ ReadRegister(sx, REG_PAYLOAD_LENGTH) # ReadRegister(sx, REG_RX_NB_BYTES)

====
